---- MODULE Spec2Model ----
(***************************************************************************)
(* The vector-index core of rag_model/rag_utils.py: ensure_vector_index,   *)
(* delete_tenant_vectors, index_tenant_files and retrieve_s3_vectors,      *)
(* run by concurrent callers against one shared S3 Vectors backend; the    *)
(* knowledge-base endpoints of main.py with the re-indexing queue and its  *)
(* consumer lambda_handler; answer_question_modern with its table of fixed *)
(* responses and the chat endpoints that call it; s3_append_url; and the   *)
(* crawler crawl_urls_lightweight with fetch_url_content.                  *)
(* One action is one backend call (or one raising statement) of a caller;  *)
(* each action carries the exception handling the source wraps around      *)
(* that call.                                                              *)
(***************************************************************************)
EXTENDS Integers, Sequences, FiniteSets, TLC

\* ------------------------------------------------------------------ bounds
NProcs == 2
NTenants == 2
MaxCalls == 2
MaxExtra == 1
MaxFaults == 1
NUrls == 10
MaxRecords == 2

\* ------------------------------------------------------- program constants
ScanTopK == 30
DeleteBatch == 100
RetrieveTopK == 8
PutBatch == 500
IndexDimension == 1024
PingDimension == 1024
PingKey == 0
MinChars == 150
MaxChars == 15000
max_workers == 10

Procs == 1..NProcs
Tenants == 1..NTenants

S3_BUCKET_NAME == "rag-chat-uploads"
S3_PREFIX_KNOWLEDGE == "knowledge_base"
TENANT_ID_KEY == "tenant_id"
None == -1

\* str(tenant_id)
Str(t) == ToString(t)

\* f"s3://{S3_BUCKET_NAME}/{key}"
KeySource(key) == "s3://" \o S3_BUCKET_NAME \o "/" \o key

\* The storage keys of the model's files: knowledge_base/<t>/a.txt, b.pdf, and
\* f"{S3_PREFIX_KNOWLEDGE}/{tenant_id}/{unique_filename}" of the n-th request's
\* upload (n stands for the uuid4 prefix).
FileKey(t) == S3_PREFIX_KNOWLEDGE \o "/" \o Str(t) \o "/a.txt"
CorruptKey(t) == S3_PREFIX_KNOWLEDGE \o "/" \o Str(t) \o "/b.pdf"
UploadKey(t, n) == S3_PREFIX_KNOWLEDGE \o "/" \o Str(t) \o "/" \o ToString(n) \o "_c.txt"

\* f"s3://{S3_BUCKET_NAME}/{key}" for the key knowledge_base/<t>/a.txt
FileSource(t) == "s3://" \o S3_BUCKET_NAME \o "/" \o S3_PREFIX_KNOWLEDGE \o "/" \o Str(t) \o "/a.txt"

\* The same for a stored file knowledge_base/<t>/b.pdf whose download or parse
\* fails.
CorruptSource(t) == "s3://" \o S3_BUCKET_NAME \o "/" \o S3_PREFIX_KNOWLEDGE \o "/" \o Str(t) \o "/b.pdf"

Corrupt == { CorruptSource(t) : t \in 1..NTenants }

VARIABLES
    bucketExists,   \* the vector bucket rag-vectordb-bucket exists
    vindex,         \* the index tenant-knowledge-index: [exists, dimension, metric]
    index,          \* the Vector Records stored in the index
    indexCreates,   \* number of create_index calls that succeeded
    startedEmpty,   \* the backend held neither bucket nor index at the start
    kb,             \* per tenant, the sources of its current documents
    urls,           \* per tenant, the lines of knowledge_base/<t>/urls.txt in S3
    db,             \* the KnowledgeBaseFile rows
    disk,           \* per tenant, the URLs in UPLOAD_DIR/<t>/urls.txt on the API host
    queue,          \* the messages on the queue RagLambdaIndexing.fifo
    handled,        \* the ids of the messages lambda_handler has processed
    faults,         \* backend failures still to be injected
    serial,         \* callers take turns: no call starts while another runs
    st,             \* per caller: the running call, its position and locals
    calls,          \* calls started so far
    crawl,          \* the call of crawl_urls_lightweight: its list, pool and results
    appended,       \* per tenant, the URLs listed at the start and those appended since
    lam             \* the invocation of lambda_handler: its event, position and locals

\* What the knowledge base holds outside the vector index.
store == <<kb, urls, db, disk, queue, handled>>

\* What runs beside the callers of the vector index.
side == <<crawl, appended, lam>>

vars == <<bucketExists, vindex, index, indexCreates, startedEmpty, store, faults,
          serial, st, calls, side>>

\* A KnowledgeBaseFile row; id 0 stands for no row.
Row(id, t, category, url, file_path) ==
    [id |-> id, tenant_id |-> t, category |-> category, url |-> url,
     file_path |-> file_path]
NoRow == Row(0, 0, "", <<>>, "")

\* ------------------------------------------------------------- the backend
NoIndex == [exists |-> FALSE, dimension |-> 0, metric |-> ""]

\* The sentinel record of ensure_vector_index: key "ping", metadata tenant_id "0",
\* no source and no content_preview ("" stands for an absent metadata key).
PingRecord == [key |-> PingKey, tenant_id |-> "0", source |-> "", content_preview |-> ""]

\* A record as index_tenant_files builds it.
ChunkRecord(k, t, src) ==
    [key |-> k, tenant_id |-> Str(t), source |-> src, content_preview |-> "chunk"]

\* The records earlier rebuilds left per tenant: tenant 1 more than one delete
\* batch, every other tenant more than one scan page.
SeedCount(t) == IF t = 1 THEN DeleteBatch + MaxExtra ELSE ScanTopK + MaxExtra

\* The records a backend holds at the start: keys 1, 2, ... dealt to the tenants
\* in turn, so that key order mixes the tenants.
SeedRecords ==
    { ChunkRecord((i - 1) * NTenants + t, t, FileSource(t)) :
        <<t, i>> \in { <<t, i>> \in Tenants \X (1..(DeleteBatch + MaxExtra)) :
                          i <= SeedCount(t) } }

\* A metadata filter matches a record; an absent filter (key "") matches all.
Matches(r, flt) == flt.key = "" \/ (flt.key = TENANT_ID_KEY /\ r.tenant_id = flt.value)

\* The n-th smallest key of ks that is at least k; ks holds n such keys.
RECURSIVE NthKey(_, _, _)
NthKey(ks, k, n) ==
    IF k \in ks
    THEN IF n = 1 THEN k ELSE NthKey(ks, k + 1, n - 1)
    ELSE NthKey(ks, k + 1, n)

\* query_vectors: the topK matching records after the continuation token, in key
\* order, and the token of the next page (None when the scan is exhausted).
QueryVectors(flt, topK, token) ==
    LET rest == { r \in index : Matches(r, flt) /\ r.key > token }
        ks   == { r.key : r \in rest }
        more == Cardinality(ks) > topK
        last == IF more THEN NthKey(ks, token + 1, topK) ELSE None
    IN [vectors |-> IF more THEN { r \in rest : r.key <= last } ELSE rest,
        nextToken |-> last]

\* put_vectors overwrites by key.
PutVectors(recs) ==
    LET keys == { n.key : n \in recs }
    IN { r \in index : r.key \notin keys } \cup recs

\* delete_vectors removes the keys it is given; a key not stored is no error.
DeleteVectors(keys) == { r \in index : r.key \notin keys }

RecordsOf(t) ==
    LET tenant_id == Str(t)
    IN { r \in index : r.tenant_id = tenant_id }

\* The error code a backend call answers with ("" when it succeeds) in the
\* backend's present state.
BucketListError == ""
BucketCreateError == IF bucketExists THEN "ConflictException" ELSE ""
IndexCreateError == IF vindex.exists THEN "ConflictException" ELSE ""
VectorCallError(dim) ==
    IF ~vindex.exists THEN "NotFoundException"
    ELSE IF dim # vindex.dimension THEN "ValidationException" ELSE ""

FaultCodes == {"AccessDeniedException"}

\* The answers a call can get: the backend's own, or an injected failure.
Outcomes(natural) == {natural} \cup (IF faults > 0 THEN FaultCodes ELSE {})
Spend(code, natural) == IF code = natural THEN faults ELSE faults - 1

\* ----------------------------------------------------------------- callers
Ops == {"ensure", "delete", "index", "retrieve"}

\* The locals of a caller with no call started. how, idx_at_*, overlap, had, after
\* and prev record what the claims ask about a call: how ensure_vector_index
\* returned, whether the index existed then, at the call and at the query, whether
\* another rebuild of the tenant overlapped, and what this rebuild and the one
\* before it found and left for the tenant. err and err_at are the code of the
\* last ClientError (or embedding error) the call met and the backend call that
\* answered with it; removed counts the records its delete batches removed and
\* deleted says that delete_tenant_vectors has returned;
\* batches lists the sizes of the put_vectors calls index_tenant_files issued and
\* total is the count it returned. For a request to the knowledge-base API: req
\* numbers the request, item is the row it found or made, url its url parameter,
\* lines what s3_append_url read, committed whether db.commit() ran and msg the id
\* of the message trigger_reindexing sent (0 for none). For answer_question_modern:
\* question is its argument, answer and sources what it returned, and called names the
\* vector-backend, embedding and generation calls that call has made. For a chat
\* message: channel is the endpoint it came through, reply what was sent to the
\* user's chat (<<>> for nothing), http the response of the endpoint, responded
\* whether the endpoint has answered.
Idle ==
    [op |-> "none", tenant |-> 0, pc |-> "done", keys_to_delete |-> <<>>,
     next_token |-> None, i |-> 0, result |-> "none", exc |-> "",
     err |-> "", err_at |-> "", removed |-> 0, deleted |-> FALSE,
     batches |-> <<>>, total |-> None,
     req |-> 0, item |-> NoRow, url |-> <<>>, lines |-> <<>>,
     committed |-> FALSE, msg |-> 0,
     question |-> <<>>, answer |-> <<>>, sources |-> {}, called |-> {},
     channel |-> "", responded |-> FALSE, reply |-> <<>>,
     http |-> [status_code |-> 0, body |-> <<>>],
     how |-> "", idx_at_return |-> FALSE, idx_at_call |-> FALSE,
     idx_at_query |-> "", docs |-> {}, overlap |-> FALSE,
     had |-> 0, prev_had |-> 0,
     after |-> [size |-> -1, sources |-> {}],
     prev |-> [size |-> -1, sources |-> {}]]

\* What a run of index_tenant_files left for its tenant, seen as it ends.
Snapshot(t, idx) ==
    LET tenant_id == Str(t)
        mine == { r \in idx : r.tenant_id = tenant_id }
    IN [size |-> Cardinality(mine), sources |-> { r.source : r \in mine }]

Running(q, op, t) == st[q].op = op /\ st[q].tenant = t /\ st[q].pc # "done"

\* The locals of a call as it starts. ensure_vector_index takes no tenant.
NewFrame(p, op, t) ==
    [Idle EXCEPT
        !.op = op,
        !.tenant = IF op = "ensure" THEN 0 ELSE t,
        !.pc = IF op = "delete" THEN "d_scan" ELSE "e_list",
        !.idx_at_call = vindex.exists,
        !.overlap = (op = "index" /\ \E q \in Procs \ {p} : Running(q, "index", t)),
        !.had = IF op = "index" THEN Cardinality(RecordsOf(t)) ELSE 0,
        !.prev_had = IF op = "index" /\ st[p].op = "index" /\ st[p].tenant = t
                     THEN st[p].had ELSE 0,
        !.prev = IF op = "index" /\ st[p].op = "index" /\ st[p].tenant = t
                 THEN st[p].after ELSE Idle.prev]

\* The name of a call as answer_question_modern records it; the other callers
\* keep no record of the calls they make.
Noted(p, name) == IF st[p].op = "answer" THEN {name} ELSE {}

Finish(s, result, exc) == [s EXCEPT !.pc = "done", !.result = result, !.exc = exc]

\* ------------------------------------------------- ensure_vector_index
\* Mutant: the outer handler raises every ClientError, conflicts included.
EnsureOuterExceptStrict(code) == "raise"

\* Mutant: the outer handler returns on every ClientError.
EnsureOuterExceptLax(code) == "return"

\* except ClientError of the whole function: conflict and in-use return, others raise.
EnsureOuterExcept(code) ==
    IF code \in {"ConflictException", "ResourceInUseException"} THEN "return" ELSE "raise"

\* except ClientError of the sentinel probe: not-found and validation fall through to
\* create_index, others are raised again (into the outer handler).
EnsureProbeExcept(code) ==
    IF code \notin {"NotFoundException", "ValidationException"} THEN "raise" ELSE "create"

\* Mutant: index_tenant_files goes from ensure_vector_index straight on to its
\* documents.
AfterEnsureSkipsDelete(s, how, exists) ==
    LET r == [s EXCEPT !.how = how, !.idx_at_return = exists]
    IN CASE s.op = "ensure" -> Finish(r, "returned", "")
         [] s.op = "index" -> [r EXCEPT !.pc = "i_mkdtemp"]
         [] OTHER -> [r EXCEPT !.pc = "r_embed"]

\* ensure_vector_index returns to its caller: index_tenant_files goes on to
\* delete_tenant_vectors, retrieve_s3_vectors (called directly or by the chain of
\* answer_question_modern) to embed_query.
AfterEnsure(s, how, exists) ==
    LET r == [s EXCEPT !.how = how, !.idx_at_return = exists]
    IN CASE s.op = "ensure" -> Finish(r, "returned", "")
         [] s.op = "index" -> [r EXCEPT !.pc = "d_scan"]
         [] OTHER -> [r EXCEPT !.pc = "r_embed"]

\* A ClientError reaches the outer handler of ensure_vector_index from call `at`.
EnsureFail(s, code, at, exists) ==
    LET e == [s EXCEPT !.err = code, !.err_at = at]
    IN IF EnsureOuterExcept(code) = "return"
       THEN AfterEnsure(e, "conflict:" \o at, exists)
       ELSE Finish(e, "raised", code)

\* Mutant: the probe deletes nothing.
ProbeKeysNone == {}

\* keys=["ping"] of the probe's delete_vectors.
ProbeKeys == {PingKey}

list_vector_buckets(p) ==
    /\ st[p].pc = "e_list"
    /\ \E code \in Outcomes(BucketListError) :
        /\ faults' = Spend(code, BucketListError)
        /\ st' = [st EXCEPT ![p] =
                    IF code = ""
                    THEN [@ EXCEPT !.pc = IF bucketExists THEN "e_put" ELSE "e_mkbucket"]
                    ELSE EnsureFail(@, code, "list_vector_buckets", vindex.exists),
                                 ![p].called = @ \cup Noted(p, "list_vector_buckets")]
    /\ UNCHANGED <<bucketExists, vindex, index, indexCreates, startedEmpty, side, store, serial, calls>>

create_vector_bucket(p) ==
    /\ st[p].pc = "e_mkbucket"
    /\ \E code \in Outcomes(BucketCreateError) :
        /\ faults' = Spend(code, BucketCreateError)
        /\ bucketExists' = (bucketExists \/ code = "")
        /\ st' = [st EXCEPT ![p] =
                    IF code = ""
                    THEN [@ EXCEPT !.pc = "e_put"]
                    ELSE EnsureFail(@, code, "create_vector_bucket", vindex.exists),
                                 ![p].called = @ \cup Noted(p, "create_vector_bucket")]
    /\ UNCHANGED <<vindex, index, indexCreates, startedEmpty, side, store, serial, calls>>

probe_put_vectors(p) ==
    /\ st[p].pc = "e_put"
    /\ \E code \in Outcomes(VectorCallError(PingDimension)) :
        /\ faults' = Spend(code, VectorCallError(PingDimension))
        /\ index' = IF code = "" THEN PutVectors({PingRecord}) ELSE index
        /\ st' = [st EXCEPT ![p] =
                    IF code = "" THEN [@ EXCEPT !.pc = "e_delping"]
                    ELSE IF EnsureProbeExcept(code) = "create"
                         THEN [@ EXCEPT !.pc = "e_create", !.err = code,
                                        !.err_at = "put_vectors"]
                    ELSE EnsureFail(@, code, "put_vectors", vindex.exists),
                                 ![p].called = @ \cup Noted(p, "probe_put_vectors")]
    /\ UNCHANGED <<bucketExists, vindex, indexCreates, startedEmpty, side, store, serial, calls>>

probe_delete_vectors(p) ==
    /\ st[p].pc = "e_delping"
    /\ \E code \in Outcomes(VectorCallError(vindex.dimension)) :
        /\ faults' = Spend(code, VectorCallError(vindex.dimension))
        /\ index' = IF code = "" THEN DeleteVectors(ProbeKeys) ELSE index
        /\ st' = [st EXCEPT ![p] =
                    IF code = "" THEN AfterEnsure(@, "probe_ok", vindex.exists)
                    ELSE IF EnsureProbeExcept(code) = "create"
                         THEN [@ EXCEPT !.pc = "e_create", !.err = code,
                                        !.err_at = "delete_vectors"]
                    ELSE EnsureFail(@, code, "delete_vectors", vindex.exists),
                                 ![p].called = @ \cup Noted(p, "probe_delete_vectors")]
    /\ UNCHANGED <<bucketExists, vindex, indexCreates, startedEmpty, side, store, serial, calls>>

create_index(p) ==
    /\ st[p].pc = "e_create"
    /\ \E code \in Outcomes(IndexCreateError) :
        /\ faults' = Spend(code, IndexCreateError)
        /\ vindex' = IF code = ""
                     THEN [exists |-> TRUE, dimension |-> IndexDimension, metric |-> "cosine"]
                     ELSE vindex
        /\ indexCreates' = IF code = "" THEN indexCreates + 1 ELSE indexCreates
        /\ st' = [st EXCEPT ![p] =
                    IF code = "" THEN AfterEnsure(@, "created", TRUE)
                    ELSE EnsureFail(@, code, "create_index", vindex.exists),
                                 ![p].called = @ \cup Noted(p, "create_index")]
    /\ UNCHANGED <<bucketExists, index, startedEmpty, side, store, serial, calls>>

\* ------------------------------------------------ delete_tenant_vectors
\* Mutant: the delete scan carries no filter.
NoDeleteFilter(t) == [key |-> "", op |-> "", value |-> ""]

\* The filter of the delete scan: {"tenant_id": {"eq": str(tenant_id)}}.
DeleteFilter(t) == [key |-> TENANT_ID_KEY, op |-> "eq", value |-> Str(t)]

\* Mutant: the scan stops after its first page.
ScanStops(next_token) == FALSE

\* The scan loop goes on while the response carries a nextToken.
ScanContinues(next_token) == next_token # None

\* Mutant: the handler prints and raises the error again.
DeleteExceptStrict(code) == "raise"

\* except ClientError of delete_tenant_vectors: both branches only print.
DeleteExcept(code) ==
    IF code \in {"ResourceNotFoundException", "ValidationException"} THEN "return" ELSE "return"

\* Mutant: a batch that leaves out its first key, keys_to_delete[i+1:i+100].
BatchSkipsFirst(keys, i) ==
    { keys[j] : j \in { j \in 1..Len(keys) : j > i + 1 /\ j <= i + DeleteBatch } }

\* keys_to_delete[i:i+100]
Batch(keys, i) ==
    { keys[j] : j \in { j \in 1..Len(keys) : j > i /\ j <= i + DeleteBatch } }

\* The keys of a response in the order it lists them (key order).
RECURSIVE KeyList(_)
KeyList(ks) ==
    IF ks = {} THEN <<>>
    ELSE LET m == CHOOSE k \in ks : \A o \in ks : k <= o
         IN <<m>> \o KeyList(ks \ {m})

\* delete_tenant_vectors returns to its caller: index_tenant_files goes on to
\* tempfile.mkdtemp().
AfterDelete(s) ==
    IF s.op = "delete" THEN Finish([s EXCEPT !.deleted = TRUE], "returned", "")
    ELSE [s EXCEPT !.pc = "i_mkdtemp", !.deleted = TRUE]

\* A ClientError of call `at` reaches the handler of delete_tenant_vectors.
DeleteFail(s, code, at) ==
    LET e == [s EXCEPT !.err = code, !.err_at = at]
    IN IF DeleteExcept(code) = "return" THEN AfterDelete(e) ELSE Finish(e, "raised", code)

\* One pass of the while loop: one query_vectors page.
scan_query_vectors(p) ==
    /\ st[p].pc = "d_scan"
    /\ \E code \in Outcomes(VectorCallError(IndexDimension)) :
        /\ faults' = Spend(code, VectorCallError(IndexDimension))
        /\ st' = [st EXCEPT ![p] =
                    IF code = ""
                    THEN LET resp == QueryVectors(DeleteFilter(@.tenant), ScanTopK,
                                                  @.next_token)
                             keys == @.keys_to_delete \o KeyList({ r.key : r \in resp.vectors })
                             more == [@ EXCEPT !.keys_to_delete = keys,
                                               !.next_token = resp.nextToken]
                         IN IF ScanContinues(resp.nextToken) THEN more
                            ELSE IF keys # <<>> THEN [more EXCEPT !.pc = "d_delete"]
                            ELSE AfterDelete(more)
                    ELSE DeleteFail(@, code, "scan:query_vectors")]
    /\ UNCHANGED <<bucketExists, vindex, index, indexCreates, startedEmpty, side, store, serial, calls>>

\* One pass of the for loop: one delete_vectors batch.
batch_delete_vectors(p) ==
    /\ st[p].pc = "d_delete"
    /\ \E code \in Outcomes(VectorCallError(vindex.dimension)) :
        /\ faults' = Spend(code, VectorCallError(vindex.dimension))
        /\ index' = IF code = ""
                    THEN DeleteVectors(Batch(st[p].keys_to_delete, st[p].i))
                    ELSE index
        /\ st' = [st EXCEPT ![p] =
                    IF code = ""
                    THEN LET gone == Cardinality(index) - Cardinality(index')
                             next == [@ EXCEPT !.i = @ + DeleteBatch,
                                               !.removed = @ + gone]
                         IN IF next.i < Len(next.keys_to_delete)
                            THEN next
                            ELSE AfterDelete(next)
                    ELSE DeleteFail(@, code, "batch:delete_vectors")]
    /\ UNCHANGED <<bucketExists, vindex, indexCreates, startedEmpty, side, store, serial, calls>>

\* --------------------------------------------------- index_tenant_files
\* temp_dir = tempfile.mkdtemp(): the module never imports tempfile, so the
\* statement raises NameError; it stands before the try, nothing handles it, and
\* the run ends here with the tenant's records deleted and none written.
mkdtemp(p) ==
    /\ st[p].pc = "i_mkdtemp"
    /\ st' = [st EXCEPT ![p] =
                Finish([@ EXCEPT !.after = Snapshot(st[p].tenant, index)], "raised", "NameError")]
    /\ UNCHANGED <<bucketExists, vindex, index, indexCreates, startedEmpty, side, store, serial, faults, calls>>

\* -------------------------------------------------- retrieve_s3_vectors
\* Mutant: the query carries no filter.
NoRetrieveFilter(t) == [key |-> "", op |-> "", value |-> ""]

\* The filter of the query: {"tenant_id": str(tenant_id)}.
RetrieveFilter(t) == [key |-> TENANT_ID_KEY, op |-> "", value |-> Str(t)]

\* Mutant: only ResourceNotFoundException yields [], other codes are raised.
RetrieveExceptStrict(code) ==
    IF code = "ResourceNotFoundException" THEN "empty" ELSE "raise"

\* except ClientError around query_vectors: both branches return [].
RetrieveExcept(code) ==
    IF code = "ResourceNotFoundException" THEN "empty" ELSE "empty"

\* The documents built from a response: records without content are skipped.
\* key and of_tenant say which record a document was built from.
Documents(vectors) ==
    { [key |-> v.key,
       page_content |-> v.content_preview,
       source |-> IF v.source = "" THEN "S3 Vectors" ELSE v.source,
       of_tenant |-> v.tenant_id] : v \in { r \in vectors : r.content_preview # "" } }

\* retrieve_s3_vectors returns its documents: to its caller, or to the chain of
\* answer_question_modern, which goes on to the generation call.
AfterRetrieve(s) ==
    IF s.op = "answer" THEN [s EXCEPT !.pc = "a_invoke"] ELSE Finish(s, "returned", "")

\* q_vec = embeddings.embed_query(query), outside any try.
embed_query(p) ==
    /\ st[p].pc = "r_embed"
    /\ \E code \in Outcomes("") :
        /\ faults' = Spend(code, "")
        /\ st' = [st EXCEPT ![p] =
                    IF code = "" THEN [@ EXCEPT !.pc = "r_query"]
                    ELSE Finish([@ EXCEPT !.err = code, !.err_at = "embed_query"],
                                "raised", code),
                                 ![p].called = @ \cup Noted(p, "embed_query")]
    /\ UNCHANGED <<bucketExists, vindex, index, indexCreates, startedEmpty, side, store, serial, calls>>

query_vectors(p) ==
    /\ st[p].pc = "r_query"
    /\ \E code \in Outcomes(VectorCallError(IndexDimension)) :
        /\ faults' = Spend(code, VectorCallError(IndexDimension))
        /\ st' = [st EXCEPT ![p] =
                    LET q == [@ EXCEPT !.idx_at_query = IF vindex.exists THEN "yes" ELSE "no"]
                    IN IF code = ""
                       THEN AfterRetrieve([q EXCEPT !.docs =
                                Documents(QueryVectors(RetrieveFilter(st[p].tenant),
                                                       RetrieveTopK, None).vectors)])
                       ELSE LET e == [q EXCEPT !.err = code, !.err_at = "query_vectors"]
                            IN IF RetrieveExcept(code) = "empty"
                               THEN AfterRetrieve([e EXCEPT !.docs = {}])
                               ELSE Finish(e, "raised", code),
                                 ![p].called = @ \cup Noted(p, "query_vectors")]
    /\ UNCHANGED <<bucketExists, vindex, index, indexCreates, startedEmpty, side, store, serial, calls>>

\* ------------------------------------------------- the knowledge-base API
\* Text is a sequence of tokens; " " and "\n" are its whitespace.
IsSpace(c) == c \in {" ", "\n"}

RECURSIVE LStrip(_)
LStrip(text) ==
    IF text = <<>> THEN <<>>
    ELSE IF IsSpace(Head(text)) THEN LStrip(Tail(text)) ELSE text

RECURSIVE RStrip(_)
RStrip(text) ==
    IF text = <<>> THEN <<>>
    ELSE IF IsSpace(text[Len(text)]) THEN RStrip(SubSeq(text, 1, Len(text) - 1)) ELSE text

\* str.strip()
Strip(text) == RStrip(LStrip(text))

\* The url parameters a request may carry.
UrlInputs == { <<"http://a/">>, <<"http://b/">>, <<" ", "http://a/", "\n">> }

\* [line.strip() for line in content.splitlines() if line.strip()]
StrippedLines(content) ==
    SelectSeq([j \in 1..Len(content) |-> Strip(content[j])], LAMBDA l : l # <<>>)

\* Mutant: the URL is appended whether or not it is listed.
AppendUrlAlways(lines, url) == Append(lines, Strip(url))

\* if url.strip() not in lines: lines.append(url.strip())
AppendUrl(lines, url) ==
    IF \E j \in 1..Len(lines) : lines[j] = Strip(url) THEN lines ELSE Append(lines, Strip(url))

ApiOps == {"create_item_file", "create_item_url", "add_url", "update_item", "delete_item"}

\* The first step of each handler after its authorization check.
FirstStep(op) ==
    CASE op = "create_item_file" -> "k_upload"
      [] op \in {"create_item_url", "add_url"} -> "k_get"
      [] OTHER -> "k_commit"

\* The handler raises HTTPException(status_code).
HttpError(s, status_code) == Finish(s, "raised", "HTTP " \o ToString(status_code))

\* A request arrives: its handler starts with the path and form parameters.
Request(p) ==
    /\ st[p].pc = "done"
    /\ \A q \in Procs : q < p => st[q].op # "none"
    /\ calls < MaxCalls
    /\ serial => \A q \in Procs : st[q].pc = "done"
    /\ \E op \in ApiOps, t \in Tenants :
        \E url \in IF op \in {"create_item_url", "add_url", "update_item"}
                   THEN UrlInputs ELSE {<<>>} :
        \E item_id \in IF op \in {"update_item", "delete_item"}
                       THEN { r.id : r \in { r \in db : r.tenant_id = t } } \cup {0}
                       ELSE {0} :
            st' = [st EXCEPT ![p] =
                    [Idle EXCEPT !.op = op, !.tenant = t, !.pc = FirstStep(op),
                                 !.req = calls + 1, !.url = url,
                                 !.item = [NoRow EXCEPT !.id = item_id]]]
    /\ calls' = calls + 1
    /\ UNCHANGED <<bucketExists, vindex, index, indexCreates, startedEmpty, side, store,
                   faults, serial>>

\* create_knowledge_base_item, category file: s3_client.upload_fileobj.
upload_fileobj(p) ==
    /\ st[p].pc = "k_upload"
    /\ \E code \in Outcomes("") :
        /\ faults' = Spend(code, "")
        /\ kb' = IF code = ""
                 THEN [kb EXCEPT ![st[p].tenant] =
                            @ \cup {KeySource(UploadKey(st[p].tenant, st[p].req))}]
                 ELSE kb
        /\ st' = [st EXCEPT ![p] =
                    IF code = "" THEN [@ EXCEPT !.pc = "k_commit"] ELSE HttpError(@, 500)]
    /\ UNCHANGED <<bucketExists, vindex, index, indexCreates, startedEmpty, side, urls, db,
                   disk, queue, handled, serial, calls>>

\* s3_append_url returns: to the handler, which goes on to the row, or to a
\* caller of its own.
AfterAppend(s) ==
    IF s.op = "append" THEN Finish(s, "returned", "") ELSE [s EXCEPT !.pc = "k_commit"]

\* s3_append_url raises: the handlers turn every exception into HTTP 500.
AppendFail(s, code) == IF s.op = "append" THEN Finish(s, "raised", code) ELSE HttpError(s, 500)

\* s3_append_url(tenant_id, url) called on its own, one call after the other.
s3_append_url(p) ==
    /\ st[p].pc = "done"
    /\ \A q \in Procs : q < p => st[q].op # "none"
    /\ calls < MaxCalls
    /\ serial => \A q \in Procs : st[q].pc = "done"
    /\ \E t \in Tenants, url \in UrlInputs :
        st' = [st EXCEPT ![p] =
                 [NewFrame(p, "append", t) EXCEPT !.pc = "k_get", !.url = url]]
    /\ calls' = calls + 1
    /\ UNCHANGED <<bucketExists, vindex, index, indexCreates, startedEmpty, side, store,
                   serial, faults>>

\* s3_append_url: get_object of urls.txt; NoSuchKey gives no lines, another
\* ClientError is raised and becomes HTTP 500 in the handler.
append_get_object(p) ==
    /\ st[p].pc = "k_get"
    /\ LET natural == IF urls[st[p].tenant] = <<>> THEN "NoSuchKey" ELSE ""
       IN \E code \in Outcomes(natural) :
            /\ faults' = Spend(code, natural)
            /\ st' = [st EXCEPT ![p] =
                        IF code = ""
                        THEN [@ EXCEPT !.pc = "k_put",
                                       !.lines = StrippedLines(urls[st[p].tenant])]
                        ELSE IF code = "NoSuchKey"
                             THEN [@ EXCEPT !.pc = "k_put", !.lines = <<>>]
                             ELSE AppendFail(@, code)]
    /\ UNCHANGED <<bucketExists, vindex, index, indexCreates, startedEmpty, side, store,
                   serial, calls>>

\* s3_append_url: append unless present, put_object of the new content.
append_put_object(p) ==
    /\ st[p].pc = "k_put"
    /\ \E code \in Outcomes("") :
        /\ faults' = Spend(code, "")
        /\ urls' = IF code = ""
                   THEN [urls EXCEPT ![st[p].tenant] = AppendUrl(st[p].lines, st[p].url)]
                   ELSE urls
        /\ st' = [st EXCEPT ![p] =
                    IF code = ""
                    THEN AfterAppend([@ EXCEPT !.lines = AppendUrl(@, st[p].url)])
                    ELSE AppendFail(@, code)]
        /\ appended' = IF code = "" /\ st[p].op = "append"
                       THEN [appended EXCEPT ![st[p].tenant] = Append(@, Strip(st[p].url))]
                       ELSE appended
    /\ UNCHANGED <<bucketExists, vindex, index, indexCreates, startedEmpty, crawl, lam, kb, db,
                   disk, queue, handled, serial, calls>>

\* The row a create request adds: the autoincrement id follows the rows there are.
NewRow(s) ==
    LET id == 2 * NTenants + s.req
    IN IF s.op = "create_item_file"
       THEN Row(id, s.tenant, "file", <<>>, UploadKey(s.tenant, s.req))
       ELSE Row(id, s.tenant, "url", s.url, "")

\* The row update_item and delete_item look up by id and tenant.
FindRow(s) ==
    LET found == { r \in db : r.id = s.item.id /\ r.tenant_id = s.tenant }
    IN IF found = {} THEN NoRow ELSE CHOOSE r \in found : TRUE

\* The database part of a handler up to db.commit(): add the new row, or find the
\* item (404 when there is none, 400 when update_item finds a file) and change
\* or delete it.
db_commit(p) ==
    /\ st[p].pc = "k_commit"
    /\ LET s == st[p]
           item == FindRow(s)
       IN IF s.op \in {"create_item_file", "create_item_url", "add_url"}
          THEN /\ db' = db \cup {NewRow(s)}
               /\ st' = [st EXCEPT ![p] = [@ EXCEPT !.pc = "k_trigger", !.item = NewRow(s),
                                                    !.committed = TRUE]]
          ELSE IF item = NoRow
          THEN /\ db' = db
               /\ st' = [st EXCEPT ![p] = HttpError(@, 404)]
          ELSE IF s.op = "update_item" /\ item.category # "url"
          THEN /\ db' = db
               /\ st' = [st EXCEPT ![p] = HttpError([@ EXCEPT !.item = item], 400)]
          ELSE /\ db' = IF s.op = "update_item"
                        THEN (db \ {item}) \cup {[item EXCEPT !.url = s.url]}
                        ELSE db \ {item}
               /\ st' = [st EXCEPT ![p] = [@ EXCEPT !.pc = "k_local", !.item = item,
                                                    !.committed = TRUE]]
    /\ UNCHANGED <<bucketExists, vindex, index, indexCreates, startedEmpty, side, kb, urls,
                   disk, queue, handled, faults, serial, calls>>

\* update_item and delete_item after the commit: the uploaded file is looked for
\* at its storage key on the local disk, where no upload ever put it, so
\* os.remove is not called and the S3 object stays; for a url item urls.txt under
\* UPLOAD_DIR is rewritten from the rows. S3 is not touched.
local_files(p) ==
    /\ st[p].pc = "k_local"
    /\ disk' = IF st[p].item.category = "url"
               THEN [disk EXCEPT ![st[p].tenant] =
                        { r.url : r \in { r \in db : r.tenant_id = st[p].tenant
                                                     /\ r.category = "url" } }]
               ELSE disk
    /\ st' = [st EXCEPT ![p] = [@ EXCEPT !.pc = "k_trigger"]]
    /\ UNCHANGED <<bucketExists, vindex, index, indexCreates, startedEmpty, side, kb, urls,
                   db, queue, handled, faults, serial, calls>>

\* The message trigger_reindexing sends; id stands for its MessageDeduplicationId.
Message(t, id) == [tenant_id |-> t, id |-> id]

\* trigger_reindexing (a failed send_message is printed, nothing more), then the
\* handler returns.
trigger_reindexing(p) ==
    /\ st[p].pc = "k_trigger"
    /\ \E code \in Outcomes("") :
        /\ faults' = Spend(code, "")
        /\ LET sent == code = ""
           IN /\ queue' = IF sent THEN Append(queue, Message(st[p].tenant, st[p].req))
                          ELSE queue
              /\ st' = [st EXCEPT ![p] =
                          Finish([@ EXCEPT !.msg = IF sent THEN st[p].req ELSE 0,
                                           !.err = code,
                                           !.err_at = IF code = "" THEN "" ELSE "send_message"],
                                 "returned", "")]
    /\ UNCHANGED <<bucketExists, vindex, index, indexCreates, startedEmpty, side, kb, urls,
                   db, disk, handled, serial, calls>>

\* lambda_handler on a batch of queued records: it collects the tenant ids and, for
\* each, prints; the call of index_tenant_files is commented out, so nothing of
\* the index or the store changes.
lambda_handler ==
    /\ queue # <<>>
    /\ \E n \in 1..Len(queue) :
        LET Records == SubSeq(queue, 1, n)
            tenant_ids_to_process == { Records[j].tenant_id : j \in 1..n }
        IN /\ queue' = SubSeq(queue, n + 1, Len(queue))
           /\ handled' = handled \cup { Records[j].id : j \in 1..n }
    /\ UNCHANGED <<bucketExists, vindex, index, indexCreates, startedEmpty, side, kb, urls,
                   db, disk, faults, serial, st, calls>>

\* --------------------------------------------------------- lambda_handler
\* int(text): the integer a text denotes, None when int() raises ValueError.
IntOf(text) ==
    CASE text = "1" -> 1
      [] text = "2" -> 2
      [] text = "3" -> 3
      [] text = "4" -> 4
      [] OTHER -> None

\* extract_tenant_id_from_s3_path: s3_key is given split at '/'.
extract_tenant_id_from_s3_path(parts) ==
    IF Len(parts) >= 2 /\ parts[1] = "knowledge_base" THEN IntOf(parts[2]) ELSE None

\* The records an event may carry. An S3 record has its key split at '/'. The
\* body of an SQS record that json.loads rejects has kind "garbage"; one that
\* carries tenant_id has kind "tenant", with the text int() is given; one that
\* wraps S3 records has kind "s3".
RecordKinds ==
    LET S3Record(parts) == [eventSource |-> "aws:s3", key |-> parts, body |-> <<>>]
        SqsRecord(body) == [eventSource |-> "aws:sqs", key |-> <<>>, body |-> body]
        TenantBody(text) == [kind |-> "tenant", tenant_id |-> text, Records |-> <<>>]
        WrappedBody(records) == [kind |-> "s3", tenant_id |-> "", Records |-> records]
        GarbageBody == [kind |-> "garbage", tenant_id |-> "", Records |-> <<>>]
        KbKey(text) == <<"knowledge_base", text, "file.pdf">>
    IN { SqsRecord(TenantBody(Str(t))) : t \in Tenants }
       \cup { S3Record(KbKey(Str(t))) : t \in Tenants }
       \cup { SqsRecord(WrappedBody(<< S3Record(KbKey(Str(t))) >>)) : t \in Tenants }
       \cup { SqsRecord(GarbageBody),
              SqsRecord(TenantBody("abc")),
              SqsRecord(WrappedBody(<< S3Record(KbKey("1")), S3Record(KbKey("x")),
                                       S3Record(KbKey("2")) >>)),
              S3Record(<<"uploads", "1", "file.pdf">>),
              S3Record(KbKey("x")),
              [eventSource |-> "aws:sns", key |-> <<>>, body |-> <<>>] }

\* The tenant ids one record adds to tenant_ids_to_process: an S3 record adds
\* the tenant id of its key if it has one, and an exception while an SQS record
\* is read is caught and the record left.
RecordTenants(record) ==
    LET S3Tenants(records) ==
            { extract_tenant_id_from_s3_path(records[j].key) :
                j \in { j \in 1..Len(records) :
                            /\ records[j].eventSource = "aws:s3"
                            /\ extract_tenant_id_from_s3_path(records[j].key) # None } }
    IN CASE record.eventSource = "aws:sqs" ->
                CASE record.body.kind = "tenant" ->
                        IF IntOf(record.body.tenant_id) = None THEN {}
                        ELSE {IntOf(record.body.tenant_id)}
                  [] record.body.kind = "s3" -> S3Tenants(record.body.Records)
                  [] OTHER -> {}
         [] record.eventSource = "aws:s3" -> S3Tenants(<<record>>)
         [] OTHER -> {}

\* No invocation yet. pos is the record the first loop stands at, reindexed the
\* tenants for which index_tenant_files has been run, completed those for which
\* "Completed indexing" was printed, tenants the list in the returned body.
NoInvocation ==
    [phase |-> "idle", Records |-> <<>>, pos |-> 1, tenant_ids_to_process |-> {},
     reindexed |-> {}, completed |-> {}, tenants |-> {}, statusCode |-> 0]

\* lambda_handler(event, context) is invoked with a batch of records.
lambda_invoke ==
    /\ lam.phase = "idle"
    /\ \E n \in 1..MaxRecords : \E Records \in [1..n -> RecordKinds] :
        lam' = [NoInvocation EXCEPT !.phase = "records", !.Records = Records]
    /\ UNCHANGED <<bucketExists, vindex, index, indexCreates, startedEmpty, crawl, appended,
                   store, faults, serial, st, calls>>

\* for record in event['Records']
lambda_record ==
    /\ lam.phase = "records"
    /\ lam' = IF lam.pos > Len(lam.Records)
              THEN [lam EXCEPT !.phase = "tenants"]
              ELSE [lam EXCEPT
                        !.pos = @ + 1,
                        !.tenant_ids_to_process = @ \cup RecordTenants(lam.Records[lam.pos])]
    /\ UNCHANGED <<bucketExists, vindex, index, indexCreates, startedEmpty, crawl, appended,
                   store, faults, serial, st, calls>>

\* for tenant_id in tenant_ids_to_process: two prints; the call of
\* index_tenant_files between them is commented out, so no re-index runs.
lambda_tenant ==
    /\ lam.phase = "tenants"
    /\ \E tenant_id \in lam.tenant_ids_to_process \ lam.completed :
        lam' = [lam EXCEPT !.completed = @ \cup {tenant_id}]
    /\ UNCHANGED <<bucketExists, vindex, index, indexCreates, startedEmpty, crawl, appended,
                   store, faults, serial, st, calls>>

\* return {'statusCode': 200, 'body': ...}
lambda_return ==
    /\ lam.phase = "tenants"
    /\ lam.completed = lam.tenant_ids_to_process
    /\ lam' = [lam EXCEPT !.phase = "returned", !.statusCode = 200,
                          !.tenants = lam.tenant_ids_to_process]
    /\ UNCHANGED <<bucketExists, vindex, index, indexCreates, startedEmpty, crawl, appended,
                   store, faults, serial, st, calls>>

\* ------------------------------------------------- crawl_urls_lightweight
\* Text is a sequence of runs: n characters that are all whitespace (ch = " ")
\* or all not (ch = "x").
Run(ch, n) == [ch |-> ch, n |-> n]

RECURSIVE TextLen(_)
TextLen(text) == IF text = <<>> THEN 0 ELSE Head(text).n + TextLen(Tail(text))

\* text[:k]
RECURSIVE Prefix(_, _)
Prefix(text, k) ==
    IF text = <<>> \/ k <= 0 THEN <<>>
    ELSE IF Head(text).n >= k THEN << Run(Head(text).ch, k) >>
         ELSE << Head(text) >> \o Prefix(Tail(text), k - Head(text).n)

\* Runs of nothing dropped and neighbours of one kind joined.
RECURSIVE Joined(_)
Joined(text) ==
    IF text = <<>> THEN <<>>
    ELSE LET rest == Joined(Tail(text))
             h == Head(text)
         IN IF h.n = 0 THEN rest
            ELSE IF rest # <<>> /\ Head(rest).ch = h.ch
                 THEN << Run(h.ch, h.n + Head(rest).n) >> \o Tail(rest)
                 ELSE << h >> \o rest

\* re.sub(r'\s+', ' ', text).strip()
clean_text(text) ==
    LET one == [k \in 1..Len(Joined(text)) |->
                    IF Joined(text)[k].ch = " " THEN Run(" ", 1) ELSE Joined(text)[k]]
        lead == IF one # <<>> /\ Head(one).ch = " " THEN Tail(one) ELSE one
    IN IF lead # <<>> /\ lead[Len(lead)].ch = " "
       THEN SubSeq(lead, 1, Len(lead) - 1) ELSE lead

\* A page is a sequence of elements [tag, text]. The tags decompose() removes.
Element(tag, text) == [tag |-> tag, text |-> text]
Decomposed == {"script", "style", "nav", "footer", "header"}

\* soup.get_text(separator=' ') of what is left of the page.
RECURSIVE GetText(_)
GetText(page) ==
    IF page = <<>> THEN <<>>
    ELSE IF Head(page).tag \in Decomposed THEN GetText(Tail(page))
         ELSE LET rest == GetText(Tail(page))
              IN IF rest = <<>> THEN Head(page).text
                 ELSE Head(page).text \o << Run(" ", 1) >> \o rest

\* What httpx.get gave: a response with a status and a page, or an exception.
Response(status_code, page) == [raised |-> FALSE, status_code |-> status_code, page |-> page]
Timeout == [raised |-> TRUE, status_code |-> 0, page |-> <<>>]

\* A Document of the crawler; NoDocument stands for None.
Document(page_content, source) == [page_content |-> page_content, source |-> source]
NoDocument == Document(<<>>, 0)

\* Mutant: a text of exactly 150 characters is too short as well.
TooShortLax(text) == TextLen(text) <= MinChars

\* len(text) < 150
TooShort(text) == TextLen(text) < MinChars

\* Mutant: the whole text is kept.

\* text[:15000]
PageContent(text) == Prefix(text, MaxChars)

\* fetch_url_content(url) once httpx.get has answered with resp.
fetch_url_content(url, resp) ==
    IF resp.raised THEN NoDocument
    ELSE IF resp.status_code # 200 THEN NoDocument
    ELSE LET text == clean_text(GetText(resp.page))
         IN IF TooShort(text) THEN NoDocument
            ELSE Document(PageContent(text), url)

\* The pages of the model's sites, around the two lengths that matter.
P(n) == Element("p", << Run("x", n) >>)
Pages ==
    << Response(200, << P(MinChars - 1) >>),
       Response(200, << P(MinChars) >>),
       Response(200, << P(100), Element("script", << Run("x", 500) >>), P(MinChars - 102) >>),
       Response(200, << P(100), Element("p", << Run(" ", 3) >>), P(MinChars - 101) >>),
       Response(200, << P(MaxChars) >>),
       Response(200, << P(MaxChars + 1) >>),
       Response(404, << P(300) >>),
       Response(200, << Element("p", << Run(" ", 2), Run("x", MinChars - 2), Run(" ", 2) >>) >>),
       Response(200, << Element("nav", << Run("x", 200) >>), P(MaxChars - 1000), P(2000),
                        Element("footer", << Run("x", 50) >>) >>),
       Timeout,
       Response(500, << P(MaxChars) >>) >>

\* The response of the site behind a URL; URLs are numbered.
Web(url) == Pages[((url - 1) % Len(Pages)) + 1]

\* The crawl before crawl_urls_lightweight is called. Per entry of urls: state is
\* "queued", "running" or "done", resp what httpx.get gave and result what
\* fetch_url_content returned; next is the entry whose result the caller awaits,
\* docs the list it is building.
NoCrawl ==
    [phase |-> "idle", urls |-> <<>>, state |-> <<>>, resp |-> <<>>, result |-> <<>>,
     next |-> 1, docs |-> <<>>]

\* The registered URLs of the tenant and the lists given inline.
RegisteredUrls == [k \in 1..NUrls |-> k]
AdditionalUrls == { <<>>, << 2 >> }

\* urls = s3_load_urls_from_file(tenant_id); urls.extend(additional_urls)
CrawlList(registered, additional_urls) == registered \o additional_urls

InFlight == { k \in 1..Len(crawl.urls) : crawl.state[k] = "running" }

\* crawl_urls_lightweight(urls): executor.map submits every fetch at once.
crawl_urls_lightweight ==
    /\ crawl.phase = "idle"
    /\ \E additional_urls \in AdditionalUrls :
        LET list == CrawlList(RegisteredUrls, additional_urls)
        IN crawl' = [NoCrawl EXCEPT
                        !.phase = "running",
                        !.urls = list,
                        !.state = [k \in 1..Len(list) |-> "queued"],
                        !.resp = [k \in 1..Len(list) |-> Timeout],
                        !.result = [k \in 1..Len(list) |-> NoDocument]]
    /\ UNCHANGED <<bucketExists, vindex, index, indexCreates, startedEmpty, appended, lam, store, faults,
                   serial, st, calls>>

\* Mutant: the pool starts a thread for every fetch submitted.
PoolIsFullNever == FALSE

\* ThreadPoolExecutor(max_workers=10): no thread is free to take a fetch.
PoolIsFull == Cardinality(InFlight) >= max_workers

\* A thread of the pool takes the fetch that has waited longest.
worker_start ==
    /\ crawl.phase = "running"
    /\ ~PoolIsFull
    /\ \E k \in 1..Len(crawl.urls) :
        /\ crawl.state[k] = "queued"
        /\ \A j \in 1..(k - 1) : crawl.state[j] # "queued"
        /\ crawl' = [crawl EXCEPT !.state[k] = "running"]
    /\ UNCHANGED <<bucketExists, vindex, index, indexCreates, startedEmpty, appended, lam, store, faults,
                   serial, st, calls>>

\* A fetch ends: the site answers, or the request fails or times out.
worker_finish ==
    /\ crawl.phase = "running"
    /\ \E k \in InFlight :
        \E resp \in {Web(crawl.urls[k])} \cup (IF faults > 0 THEN {Timeout} ELSE {}) :
            /\ faults' = IF resp = Web(crawl.urls[k]) THEN faults ELSE faults - 1
            /\ crawl' = [crawl EXCEPT
                            !.state[k] = "done",
                            !.resp[k] = resp,
                            !.result[k] = fetch_url_content(crawl.urls[k], resp)]
    /\ UNCHANGED <<bucketExists, vindex, index, indexCreates, startedEmpty, appended, lam, store,
                   serial, st, calls>>

\* Mutant: every result is appended, None included.

\* if doc:
Keeps(doc) == doc # NoDocument

\* for doc in executor.map(...): the results come in the order of the list.
collect ==
    /\ crawl.phase = "running"
    /\ crawl.next <= Len(crawl.urls)
    /\ crawl.state[crawl.next] = "done"
    /\ crawl' = [crawl EXCEPT
                    !.next = @ + 1,
                    !.docs = IF Keeps(crawl.result[crawl.next])
                             THEN Append(@, crawl.result[crawl.next]) ELSE @]
    /\ UNCHANGED <<bucketExists, vindex, index, indexCreates, startedEmpty, appended, lam, store, faults,
                   serial, st, calls>>

\* return docs
crawl_return ==
    /\ crawl.phase = "running"
    /\ crawl.next > Len(crawl.urls)
    /\ crawl' = [crawl EXCEPT !.phase = "returned"]
    /\ UNCHANGED <<bucketExists, vindex, index, indexCreates, startedEmpty, appended, lam, store, faults,
                   serial, st, calls>>

\* ------------------------------------------------- answer_question_modern
\* str.lower() on a token: the tokens with capitals and what they become.
LowerToken(c) ==
    CASE c = "Hours" -> "hours"
      [] c = "HI" -> "hi"
      [] c = "Refund" -> "refund"
      [] OTHER -> c

Lower(text) == [k \in 1..Len(text) |-> LowerToken(text[k])]

\* A value of the table: a plain string, or an object with or without an answer.
Plain(text) == [is_dict |-> FALSE, has_answer |-> FALSE, answer |-> text]
Structured(text) == [is_dict |-> TRUE, has_answer |-> TRUE, answer |-> text]
Bare == [is_dict |-> TRUE, has_answer |-> FALSE, answer |-> <<>>]

\* FIXED_RESPONSES as json.load left it: lowercase keys, three kinds of value.
FIXED_RESPONSES ==
    (<<"hours">> :> Plain(<<"We're open 9-5.">>))
    @@ (<<"hi">> :> Structured(<<" ", "Hello!", "\n">>))
    @@ (<<"refund">> :> Plain(<<"Refunds take 5 days.", " ">>))
    @@ (<<"policy">> :> Bare)

\* str(fixed_resp): the text of a whole value.
StrOf(value) == IF value.is_dict THEN <<"{...}">> ELSE value.answer

\* The questions asked: hits written as their key, with capitals or with
\* whitespace around, and misses.
Questions ==
    { <<"hours">>, <<" ", "Hours", "\n">>, <<"HI">>, <<"Refund">>, <<"policy">>,
      <<"Hours", "?">>, <<"price">> }

\* Mutant: punctuation is dropped from the question as well.
CleanedLoose(question) == Lower(SelectSeq(Strip(question), LAMBDA c : c # "?"))

\* cleaned = question.strip().lower()
Cleaned(question) == Lower(Strip(question))

\* Mutant: the fixed answer is returned as the table holds it.
FixedAnswerRaw(fixed_resp) ==
    IF fixed_resp.is_dict
    THEN IF fixed_resp.has_answer THEN fixed_resp.answer ELSE StrOf(fixed_resp)
    ELSE StrOf(fixed_resp)

\* answer of the hit branch: the inner answer or str(fixed_resp), stripped.
FixedAnswer(fixed_resp) ==
    Strip(IF fixed_resp.is_dict
          THEN IF fixed_resp.has_answer THEN fixed_resp.answer ELSE StrOf(fixed_resp)
          ELSE StrOf(fixed_resp))

\* A caller starts answer_question_modern(question, tenant_id).
Ask(p) ==
    /\ st[p].pc = "done"
    /\ \A q \in Procs : q < p => st[q].op # "none"
    /\ calls < MaxCalls
    /\ serial => \A q \in Procs : st[q].pc = "done"
    /\ \E question \in Questions, t \in Tenants :
        st' = [st EXCEPT ![p] =
                 [NewFrame(p, "answer", t) EXCEPT !.pc = "a_lookup", !.question = question]]
    /\ calls' = calls + 1
    /\ UNCHANGED <<bucketExists, vindex, index, indexCreates, startedEmpty, side, store, serial, faults>>

\* cleaned in FIXED_RESPONSES: return the fixed answer, or build the chain and
\* call it, which starts with the retriever.
fixed_response(p) ==
    /\ st[p].pc = "a_lookup"
    /\ st' = [st EXCEPT ![p] =
                LET cleaned == Cleaned(@.question)
                IN IF cleaned \in DOMAIN FIXED_RESPONSES
                   THEN Finish([@ EXCEPT !.answer = FixedAnswer(FIXED_RESPONSES[cleaned]),
                                         !.sources = {"Fixed Response"}],
                               "returned", "")
                   ELSE [@ EXCEPT !.pc = "e_list"]]
    /\ UNCHANGED <<bucketExists, vindex, index, indexCreates, startedEmpty, side, store, serial,
                   faults, calls>>

\* The chain passes the documents to the model; its answer and the sources of
\* the documents are returned. An error of the model is not caught.
invoke_model(p) ==
    /\ st[p].pc = "a_invoke"
    /\ \E code \in Outcomes("") :
        /\ faults' = Spend(code, "")
        /\ st' = [st EXCEPT ![p] =
                    IF code = ""
                    THEN Finish([@ EXCEPT !.answer = <<"generated">>,
                                          !.sources = { d.source : d \in st[p].docs }],
                                "returned", "")
                    ELSE Finish([@ EXCEPT !.err = code, !.err_at = "invoke_model"],
                                "raised", code),
                                 ![p].called = @ \cup Noted(p, "invoke_model")]
    /\ UNCHANGED <<bucketExists, vindex, index, indexCreates, startedEmpty, side, store, serial, calls>>

\* ------------------------------------------------------ the chat endpoints
\* POST /rag/ask/{tenant_id}, /tenants/{tenant_id}/chat, /chatbot/ask, and the
\* webhooks of Facebook/Instagram and Telegram.
HttpChannels == {"rag_ask", "tenant_chat", "chatbot_ask"}
WebhookChannels == {"facebook", "telegram"}

ChatMessages == { <<"hours">>, <<"price">> }

\* The replies the webhook handlers hold ready for a failed answer.
CannedReplies ==
    { <<"Sorry, I've reached my query limit for now. Please try again later.">>,
      <<"An error occurred. Please try again.">>,
      <<"Sorry, I couldn't generate a response.">> }

\* A chat message arrives at an endpoint, which calls answer_question_modern.
chat_request(p) ==
    /\ st[p].pc = "done"
    /\ st[p].channel # "" => st[p].responded
    /\ \A q \in Procs : q < p => st[q].op # "none"
    /\ calls < MaxCalls
    /\ serial => \A q \in Procs : st[q].pc = "done" /\ (st[q].channel # "" => st[q].responded)
    /\ \E channel \in HttpChannels \cup WebhookChannels, text \in ChatMessages, t \in Tenants :
        st' = [st EXCEPT ![p] =
                 [NewFrame(p, "answer", t) EXCEPT
                    !.pc = "a_lookup", !.question = text, !.channel = channel]]
    /\ calls' = calls + 1
    /\ UNCHANGED <<bucketExists, vindex, index, indexCreates, startedEmpty, side, store,
                   serial, faults>>

\* except HTTPException of the webhook handlers: which reply an exception of
\* answer_question_modern gets. It raises ClientError and the errors of the
\* embedding and generation calls, never HTTPException, so the exception passes
\* to the handler's outer except and no reply is sent.
WebhookExcept(exc) ==
    IF exc = "HTTPException 402"
    THEN <<"Sorry, I've reached my query limit for now. Please try again later.">>
    ELSE IF exc = "HTTPException" THEN <<"An error occurred. Please try again.">>
    ELSE <<>>

\* The endpoint answers: the reply sent to the chat and the HTTP response.
respond(p) ==
    /\ st[p].op = "answer" /\ st[p].pc = "done"
    /\ st[p].channel # "" /\ ~st[p].responded
    /\ LET s == st[p]
           ok == s.result = "returned"
           reply == IF s.channel \in WebhookChannels
                    THEN IF ok THEN Strip(s.answer) ELSE WebhookExcept(s.exc)
                    ELSE <<>>
           http ==
             CASE ok /\ s.channel \in HttpChannels ->
                        [status_code |-> 200, body |-> s.answer]
               [] ok -> [status_code |-> 200, body |-> <<"success">>]
               [] s.channel = "rag_ask" ->
                        [status_code |-> 500, body |-> <<"An error occurred: ", s.exc>>]
               [] s.channel = "tenant_chat" ->
                        [status_code |-> 500,
                         body |-> <<"An error occurred while processing the request: ", s.exc>>]
               [] s.channel = "chatbot_ask" ->
                        [status_code |-> 500, body |-> <<"Internal Server Error">>]
               [] OTHER -> [status_code |-> 200, body |-> <<"error", s.exc>>]
       IN st' = [st EXCEPT ![p] =
                    [@ EXCEPT !.responded = TRUE, !.reply = reply, !.http = http]]
    /\ UNCHANGED <<bucketExists, vindex, index, indexCreates, startedEmpty, side, store,
                   serial, faults, calls>>

\* ------------------------------------------------------------ the system
\* A caller with no call running starts one. A run of index_tenant_files that
\* starts while another runs for the same tenant marks both as overlapping.
\* Callers are interchangeable: caller p makes its first call only once the
\* callers before it have made theirs.
Call(p) ==
    /\ st[p].pc = "done"
    /\ \A q \in Procs : q < p => st[q].op # "none"
    /\ calls < MaxCalls
    /\ serial => \A q \in Procs : st[q].pc = "done"
    /\ \E op \in Ops, t \in Tenants :
        /\ op = "ensure" => t = 1
        /\ st' = [q \in Procs |->
                    IF q = p THEN NewFrame(p, op, t)
                    ELSE IF op = "index" /\ Running(q, "index", t)
                         THEN [st[q] EXCEPT !.overlap = TRUE]
                         ELSE st[q]]
    /\ calls' = calls + 1
    /\ UNCHANGED <<bucketExists, vindex, index, indexCreates, startedEmpty, side, store, serial, faults>>

\* The backend at the start: nothing provisioned, the bucket alone, or the index
\* with the records earlier rebuilds left in it.
InitBackend ==
    \/ /\ bucketExists = FALSE /\ vindex = NoIndex /\ index = {}
       /\ startedEmpty = TRUE
    \/ /\ bucketExists = TRUE /\ vindex = NoIndex /\ index = {}
       /\ startedEmpty = FALSE
    \/ /\ bucketExists = TRUE
       /\ vindex = [exists |-> TRUE, dimension |-> IndexDimension, metric |-> "cosine"]
       /\ index = SeedRecords
       /\ startedEmpty = FALSE

\* Every tenant has uploaded a.txt and b.pdf and registered no URL.
InitStore ==
    /\ kb = [t \in Tenants |-> {FileSource(t), CorruptSource(t)}]
    /\ urls = [t \in Tenants |-> <<>>]
    /\ db = { Row(2 * t - 1, t, "file", <<>>, FileKey(t)) : t \in Tenants }
            \cup { Row(2 * t, t, "file", <<>>, CorruptKey(t)) : t \in Tenants }
    /\ disk = [t \in Tenants |-> {}]
    /\ queue = <<>>
    /\ handled = {}

InitCallers ==
    /\ indexCreates = 0
    /\ InitStore
    /\ st = [p \in Procs |-> Idle]
    /\ calls = 0
    /\ crawl = NoCrawl
    /\ appended = [t \in Tenants |-> <<>>]
    /\ lam = NoInvocation

Init == InitBackend /\ InitCallers /\ faults = 0 /\ serial = FALSE

InitF == InitBackend /\ InitCallers /\ faults = MaxFaults /\ serial = TRUE

Next ==
    \E p \in Procs :
        \/ Call(p)
        \/ list_vector_buckets(p)
        \/ create_vector_bucket(p)
        \/ probe_put_vectors(p)
        \/ probe_delete_vectors(p)
        \/ create_index(p)
        \/ scan_query_vectors(p)
        \/ batch_delete_vectors(p)
        \/ mkdtemp(p)
        \/ embed_query(p)
        \/ query_vectors(p)

Spec == Init /\ [][Next]_vars

\* The same callers, one call at a time, against a backend that may fail a call.
SpecF == InitF /\ [][Next]_vars

\* The knowledge-base API and the consumer of its queue, the index as earlier
\* rebuilds left it.
InitKB ==
    /\ bucketExists = TRUE
    /\ vindex = [exists |-> TRUE, dimension |-> IndexDimension, metric |-> "cosine"]
    /\ index = SeedRecords
    /\ startedEmpty = FALSE
    /\ InitCallers /\ faults = MaxFaults /\ serial = FALSE

NextKB ==
    \/ \E p \in Procs :
        \/ Request(p)
        \/ upload_fileobj(p)
        \/ append_get_object(p)
        \/ append_put_object(p)
        \/ db_commit(p)
        \/ local_files(p)
        \/ trigger_reindexing(p)
    \/ lambda_handler

SpecKB == InitKB /\ [][NextKB]_vars

\* urls.txt at the start: absent, or free of duplicates, with or without blank
\* lines and whitespace around a URL.
InitialFiles ==
    { <<>>,
      << <<"http://b/">> >>,
      << <<" ", "http://b/">>, <<>>, <<"http://c/", "\n">> >> }

\* Calls of s3_append_url, one at a time, S3 liable to fail a call.
InitAppend ==
    /\ bucketExists = FALSE /\ vindex = NoIndex /\ index = {}
    /\ startedEmpty = TRUE /\ indexCreates = 0
    /\ kb = [t \in Tenants |-> {}]
    /\ urls \in [Tenants -> InitialFiles]
    /\ appended = [t \in Tenants |-> StrippedLines(urls[t])]
    /\ db = {} /\ disk = [t \in Tenants |-> {}] /\ queue = <<>> /\ handled = {}
    /\ st = [p \in Procs |-> Idle]
    /\ calls = 0 /\ crawl = NoCrawl /\ lam = NoInvocation
    /\ faults = MaxFaults /\ serial = TRUE

NextAppend ==
    \E p \in Procs :
        \/ s3_append_url(p)
        \/ append_get_object(p)
        \/ append_put_object(p)

SpecAppend == InitAppend /\ [][NextAppend]_vars

\* Calls of s3_append_url that may overlap, S3 answering every call.
SpecConcurrentAppend == Init /\ [][NextAppend]_vars

\* Callers of ensure_vector_index alone, concurrently, the backend in any of its
\* starting states.
Ensure(p) ==
    /\ st[p].pc = "done"
    /\ \A q \in Procs : q < p => st[q].op # "none"
    /\ calls < MaxCalls
    /\ st' = [st EXCEPT ![p] = NewFrame(p, "ensure", 1)]
    /\ calls' = calls + 1
    /\ UNCHANGED <<bucketExists, vindex, index, indexCreates, startedEmpty, side, store,
                   serial, faults>>

NextEnsure ==
    \E p \in Procs :
        \/ Ensure(p)
        \/ list_vector_buckets(p)
        \/ create_vector_bucket(p)
        \/ probe_put_vectors(p)
        \/ probe_delete_vectors(p)
        \/ create_index(p)

SpecEnsure == Init /\ [][NextEnsure]_vars

\* Chat messages arriving at the endpoints, one at a time, the backend and the
\* models liable to fail a call.
NextChat ==
    \E p \in Procs :
        \/ chat_request(p)
        \/ fixed_response(p)
        \/ list_vector_buckets(p)
        \/ create_vector_bucket(p)
        \/ probe_put_vectors(p)
        \/ probe_delete_vectors(p)
        \/ create_index(p)
        \/ embed_query(p)
        \/ query_vectors(p)
        \/ invoke_model(p)
        \/ respond(p)

SpecChat == InitF /\ [][NextChat]_vars

\* One call of crawl_urls_lightweight against sites of which one may fail to
\* answer.
NextCrawl ==
    \/ crawl_urls_lightweight
    \/ worker_start
    \/ worker_finish
    \/ collect
    \/ crawl_return

InitCrawl ==
    /\ bucketExists = FALSE /\ vindex = NoIndex /\ index = {}
    /\ startedEmpty = TRUE
    /\ InitCallers /\ faults = MaxFaults /\ serial = TRUE

SpecCrawl == InitCrawl /\ [][NextCrawl]_vars

\* One invocation of lambda_handler with a batch of records.
NextLambda ==
    \/ lambda_invoke
    \/ lambda_record
    \/ lambda_tenant
    \/ lambda_return

SpecLambda == InitCrawl /\ [][NextLambda]_vars

\* Callers of answer_question_modern, one at a time, the backend in any of its
\* starting states and liable to fail a call.
NextAsk ==
    \E p \in Procs :
        \/ Ask(p)
        \/ fixed_response(p)
        \/ list_vector_buckets(p)
        \/ create_vector_bucket(p)
        \/ probe_put_vectors(p)
        \/ probe_delete_vectors(p)
        \/ create_index(p)
        \/ embed_query(p)
        \/ query_vectors(p)
        \/ invoke_model(p)

SpecAsk == InitF /\ [][NextAsk]_vars

\* ---------------------------------------------------------------- claims
\* The documents of t a rebuild can load, and their chunks (a document is one
\* chunk).
Loadable(t) == kb[t] \ Corrupt
NChunks(t) == Cardinality(Loadable(t))

InEnsure(p) == st[p].pc \in {"e_list", "e_mkbucket", "e_put", "e_delping", "e_create"}

\* What retrieve_s3_vectors would return for tenant t in the present state.
TenantQuery(t) == Documents(QueryVectors(RetrieveFilter(t), RetrieveTopK, None).vectors)

\* C1: every document retrieve_s3_vectors(query, A) returns was built from a
\* record whose metadata tenant_id is str(A), whatever the index holds.
C1_TenantIsolation ==
    \A p \in Procs :
        st[p].op = "retrieve" =>
            \A d \in st[p].docs : d.of_tenant = Str(st[p].tenant)

\* A query for one tenant returned documents while another tenant's records
\* were in the index.
C1_Witness ==
    \E p \in Procs :
        /\ st[p].op = "retrieve" /\ st[p].pc = "done" /\ st[p].docs # {}
        /\ \E b \in Tenants \ {st[p].tenant} : RecordsOf(b) # {}

\* C2: no step of delete_tenant_vectors(A) or index_tenant_files(A) changes the
\* set of records of another tenant B.
C2_OtherTenantsUntouched ==
    [][\A p \in Procs :
          (st'[p] # st[p] /\ st[p].op \in {"delete", "index"} /\ st[p].pc # "done")
              => \/ index' = index
                 \/ \A b \in Tenants \ {st[p].tenant} : RecordsOf(b)' = RecordsOf(b)]_vars

\* A delete for one tenant has removed its records while a delete for another
\* tenant is between two of its batches, that tenant's later records still stored.
C2_Witness ==
    \E p, q \in Procs :
        /\ st[p].op \in {"delete", "index"} /\ st[p].keys_to_delete # <<>>
        /\ st[p].pc \in {"done", "i_mkdtemp"}
        /\ st[q].pc = "d_delete" /\ st[q].i > 0
        /\ st[q].tenant # st[p].tenant
        /\ RecordsOf(st[q].tenant) # {}

C5_ReindexIdempotent ==
    \A p \in Procs :
        (st[p].op = "index" /\ st[p].pc = "done" /\ st[p].prev.size # -1) =>
            st[p].after = st[p].prev

\* A second run in succession has ended, its tenant having had more than one scan
\* page of records before the first.
C5_Witness ==
    \E p \in Procs :
        /\ st[p].op = "index" /\ st[p].pc = "done" /\ st[p].prev.size # -1
        /\ st[p].prev_had > ScanTopK

\* C6: once delete_tenant_vectors(t) has returned, a query scoped to t returns no
\* record and the index holds none tagged t.
C6_DeleteLeavesNothing ==
    \A p \in Procs :
        (st[p].op = "delete" /\ st[p].pc = "done") =>
            /\ TenantQuery(st[p].tenant) = {}
            /\ RecordsOf(st[p].tenant) = {}

\* A delete that took more than one scan page and more than one delete batch has
\* returned.
C6_Witness ==
    \E p \in Procs :
        /\ st[p].op = "delete" /\ st[p].pc = "done" /\ st[p].result = "returned"
        /\ Len(st[p].keys_to_delete) > DeleteBatch
        /\ st[p].i > DeleteBatch

\* C7: against a backend that started with neither bucket nor index, no call of
\* ensure_vector_index raises, create_index succeeds at most once, and once no
\* caller is inside ensure_vector_index any more the one index exists.
C7_ConcurrentEnsure ==
    startedEmpty =>
        /\ indexCreates <= 1
        /\ \A p \in Procs : st[p].result = "raised" => st[p].exc = "NameError"
        /\ (bucketExists /\ \A p \in Procs : ~InEnsure(p)) =>
                (vindex.exists /\ indexCreates = 1)

\* Every caller has called ensure_vector_index on the empty backend, all have
\* returned, and one of them lost the race for create_index.
C7_Witness ==
    /\ startedEmpty
    /\ \A p \in Procs :
        st[p].op = "ensure" /\ st[p].pc = "done" /\ st[p].result = "returned"
    /\ \E p \in Procs : st[p].how = "conflict:create_index"
    /\ calls = NProcs

\* C8: when ensure_vector_index has returned normally, bucket and index (dimension
\* 1024, cosine) existed at that moment.
C8_IndexExistsOnReturn ==
    \A p \in Procs :
        st[p].how # "" =>
            /\ st[p].idx_at_return /\ bucketExists
            /\ vindex.dimension = IndexDimension /\ vindex.metric = "cosine"

\* C9: ensure_vector_index returns normally only after the sentinel probe
\* succeeded, create_index succeeded, or create_index failed with a conflict code.
C9_ReturnPaths ==
    \A p \in Procs :
        st[p].how # "" => st[p].how \in {"probe_ok", "created", "conflict:create_index"}

\* C10: a retrieve_s3_vectors call made, or whose query_vectors was issued, while
\* the index did not exist returns an empty list and raises nothing.
C10_QueryWithoutIndex ==
    \A p \in Procs :
        (st[p].op = "retrieve" /\ st[p].pc = "done"
            /\ (~st[p].idx_at_call \/ st[p].idx_at_query = "no")) =>
                (st[p].result = "returned" /\ st[p].docs = {})

\* query_vectors was issued against a missing index and the call has returned.
C10_Witness ==
    \E p \in Procs :
        /\ st[p].op = "retrieve" /\ st[p].pc = "done"
        /\ st[p].idx_at_query = "no" /\ st[p].result = "returned"

\* The calls of ensure_vector_index and of delete_tenant_vectors, as err_at names
\* them, and the codes that say the index is not ready.
EnsureCalls ==
    {"list_vector_buckets", "create_vector_bucket", "put_vectors", "delete_vectors",
     "create_index"}
DeleteCalls == {"scan:query_vectors", "batch:delete_vectors"}
NotReadyCodes == {"NotFoundException", "ResourceNotFoundException", "ValidationException"}

\* delete_tenant_vectors has ended in the call of caller p.
DeleteEnded(p) ==
    \/ st[p].op = "delete" /\ st[p].pc = "done"
    \/ st[p].op = "index" /\ st[p].pc \in {"i_mkdtemp", "done"}

\* C11: a delete_tenant_vectors whose scan or delete batch was answered not-found
\* or validation has returned normally (into index_tenant_files when that called
\* it) and its batches removed no record.
C11_NotReadyIsNoOp ==
    \A p \in Procs :
        (DeleteEnded(p) /\ st[p].err_at \in DeleteCalls /\ st[p].err \in NotReadyCodes) =>
            /\ st[p].removed = 0
            /\ st[p].op = "delete" => st[p].result = "returned"
            /\ st[p].op = "index" => st[p].exc # st[p].err

\* A delete_tenant_vectors called directly has scanned a missing index and returned.
C11_Witness ==
    \E p \in Procs :
        /\ st[p].op = "delete" /\ st[p].pc = "done" /\ st[p].result = "returned"
        /\ st[p].err_at = "scan:query_vectors" /\ st[p].err = "NotFoundException"
        /\ ~vindex.exists

\* C12 as stated: a call that met an unexpected error code has ended by raising
\* that code to its caller.
C12_UnexpectedErrorAborts ==
    \A p \in Procs :
        st[p].err \in FaultCodes =>
            (st[p].pc = "done" /\ st[p].result = "raised" /\ st[p].exc = st[p].err)

\* C12 amended: an unexpected code from a call of ensure_vector_index or from
\* embed_query ends the call by raising it; one from the delete scan or a delete
\* batch is swallowed, delete_tenant_vectors returns and index_tenant_files goes on
\* past it; one from query_vectors makes retrieve_s3_vectors return no documents.
C12_UnexpectedErrorPaths ==
    \A p \in Procs :
        st[p].err \in FaultCodes =>
            CASE st[p].err_at \in EnsureCalls \cup {"embed_query"} ->
                    st[p].pc = "done" /\ st[p].result = "raised" /\ st[p].exc = st[p].err
              [] st[p].err_at \in DeleteCalls ->
                    IF st[p].op = "delete"
                    THEN st[p].pc = "done" /\ st[p].result = "returned"
                    ELSE \/ st[p].pc = "i_mkdtemp"
                         \/ st[p].pc = "done" /\ st[p].exc = "NameError"
              [] OTHER ->
                    /\ st[p].err_at = "query_vectors"
                    /\ st[p].pc = "done" /\ st[p].result = "returned" /\ st[p].docs = {}

\* A rebuild went on past a delete batch that failed with an unexpected code,
\* records of its tenant still stored.
C12_Witness ==
    \E p \in Procs :
        /\ st[p].op = "index" /\ st[p].pc = "done"
        /\ st[p].err \in FaultCodes /\ st[p].err_at = "batch:delete_vectors"
        /\ RecordsOf(st[p].tenant) # {}


\* A run of index_tenant_files by caller p has ended.
IndexEnded(p) == st[p].op = "index" /\ st[p].pc = "done"

RECURSIVE SumOf(_)
SumOf(sizes) == IF sizes = <<>> THEN 0 ELSE Head(sizes) + SumOf(Tail(sizes))

\* C13: a run of index_tenant_files(t) over a tenant that has a file whose download
\* or parse fails has returned normally, and every other document of t has a
\* record tagged str(t).
C13_BadDocumentIsSkipped ==
    \A p \in Procs :
        (IndexEnded(p) /\ kb[st[p].tenant] \cap Corrupt # {}) =>
            /\ st[p].result = "returned"
            /\ \A src \in Loadable(st[p].tenant) :
                \E r \in RecordsOf(st[p].tenant) : r.source = src

C15_BatchesOfAtMost500 ==
    \A p \in Procs :
        (IndexEnded(p) /\ NChunks(st[p].tenant) >= 1) =>
            /\ \A j \in 1..Len(st[p].batches) :
                st[p].batches[j] >= 1 /\ st[p].batches[j] <= PutBatch
            /\ SumOf(st[p].batches) = NChunks(st[p].tenant)
            /\ st[p].total = NChunks(st[p].tenant)

\* C16: once the runs of index_tenant_files(t) that overlapped have all ended, t's
\* vector set is one record per chunk of t's documents.
C16_OverlapSettles ==
    \A p \in Procs :
        (IndexEnded(p) /\ st[p].overlap
            /\ \A q \in Procs : ~Running(q, "index", st[p].tenant)) =>
                Snapshot(st[p].tenant, index) =
                    [size |-> NChunks(st[p].tenant), sources |-> Loadable(st[p].tenant)]

\* C19: a run of index_tenant_files(t) over a tenant with a loadable document has
\* returned a count of at least 1, and while the index holds records tagged
\* str(t) a query for t returns one of them.
C19_ReindexThenQuery ==
    \A p \in Procs :
        (IndexEnded(p) /\ Loadable(st[p].tenant) # {}) =>
            /\ st[p].result = "returned" /\ st[p].total >= 1
            /\ \E d \in TenantQuery(st[p].tenant) : d.of_tenant = Str(st[p].tenant)

\* A request of the knowledge-base API has returned after its db.commit().
Mutated(p) == st[p].op \in ApiOps /\ st[p].pc = "done" /\ st[p].committed

\* The source the records of an uploaded file carry.
ItemSource(row) == KeySource(row.file_path)

\* C17: for every request that committed a knowledge-base mutation and has
\* returned, a re-index message for its tenant was placed on the queue: it is
\* queued or lambda_handler has processed it.
C17_MutationTriggersReindex ==
    \A p \in Procs :
        Mutated(p) =>
            \/ st[p].msg \in handled
            \/ \E j \in 1..Len(queue) : queue[j] = Message(st[p].tenant, st[p].msg)

\* C18: once lambda_handler has processed the message of a delete_item request,
\* no record of the deleted file remains, and a tenant left without items has
\* no record and gets no document from a query.
C18_DeletedItemLeavesIndex ==
    \A p \in Procs :
        (Mutated(p) /\ st[p].op = "delete_item" /\ st[p].msg \in handled) =>
            /\ st[p].item.category = "file" =>
                    \A r \in RecordsOf(st[p].tenant) : r.source # ItemSource(st[p].item)
            /\ { r \in db : r.tenant_id = st[p].tenant } = {} =>
                    (RecordsOf(st[p].tenant) = {} /\ TenantQuery(st[p].tenant) = {})

\* A call of answer_question_modern whose cleaned question is a key of the table.
Hit(p) == st[p].op = "answer" /\ Cleaned(st[p].question) \in DOMAIN FIXED_RESPONSES

\* The canned answer of a value as the table holds it: the string, the answer
\* field, or the text of the whole object when it has no answer field.
Canned(value) ==
    IF value.is_dict /\ ~value.has_answer THEN StrOf(value) ELSE value.answer

\* C20 as stated: when the trimmed, lowercased question is a key of the table, the
\* call returns the string value or the answer field of the value as it is, with
\* sources exactly {"Fixed Response"}, and has made no embedding, vector-backend
\* or generation call.
C20_FixedResponseAsStored ==
    \A p \in Procs :
        LET value == FIXED_RESPONSES[Cleaned(st[p].question)]
        IN (Hit(p) /\ st[p].pc = "done" /\ (value.is_dict => value.has_answer)) =>
                /\ st[p].result = "returned"
                /\ st[p].answer = value.answer
                /\ st[p].sources = {"Fixed Response"}
                /\ st[p].called = {}

\* C20 amended: on a hit the call makes no embedding, vector-backend or generation
\* call at any point, and returns the canned answer with the whitespace around it
\* removed, with sources exactly {"Fixed Response"}.
C20_FixedResponseStripped ==
    \A p \in Procs :
        Hit(p) =>
            /\ st[p].called = {}
            /\ st[p].pc \in {"a_lookup", "done"}
            /\ st[p].pc = "done" =>
                    /\ st[p].result = "returned"
                    /\ st[p].answer = Strip(Canned(FIXED_RESPONSES[Cleaned(st[p].question)]))
                    /\ st[p].sources = {"Fixed Response"}

\* A question written with capitals hit a value stored with whitespace around
\* it, and the call returned, while another call had to go through the chain.
C20_Witness ==
    \E p \in Procs :
        /\ Hit(p) /\ st[p].pc = "done"
        /\ st[p].question # Cleaned(st[p].question)
        /\ Canned(FIXED_RESPONSES[Cleaned(st[p].question)]) # st[p].answer
        /\ st[p].answer = <<"Hello!">>
        /\ st[p].called = {}

Fetched == { k \in 1..Len(crawl.urls) : crawl.state[k] = "done" }

\* The cleaned text of a response: markup stripped, whitespace collapsed.
CleanedText(resp) == clean_text(GetText(resp.page))

\* C22: a fetch that got no 200 response yields no document; a 200 response
\* whose cleaned text has fewer than 150 characters yields none either; one
\* with 150 or more yields a document with the URL as source whose text is the
\* first min(length, 15000) characters of the cleaned text.
C22_FetchUrlContent ==
    \A k \in Fetched :
        LET resp == crawl.resp[k]
            doc == crawl.result[k]
            text == CleanedText(resp)
            length == TextLen(text)
            kept == IF length < 15000 THEN length ELSE 15000
            \* no whitespace at either end and none longer than one character
            IsClean ==
                /\ \A j \in 1..Len(text) :
                        text[j].n > 0 /\ (text[j].ch = " " => text[j].n = 1)
                /\ \A j \in 1..(Len(text) - 1) : text[j].ch # text[j + 1].ch
                /\ text # <<>> => (text[1].ch # " " /\ text[Len(text)].ch # " ")
        IN /\ (resp.raised \/ resp.status_code # 200) => doc = NoDocument
           /\ (~resp.raised /\ resp.status_code = 200) =>
                /\ IsClean
                /\ length < 150 => doc = NoDocument
                /\ length >= 150 =>
                    /\ doc # NoDocument
                    /\ doc.source = crawl.urls[k]
                    /\ TextLen(doc.page_content) = kept
                    /\ doc.page_content = Prefix(text, kept)

\* Fetches have ended with cleaned texts of 149, 150 and 15001 characters and
\* with a 404: the second and third gave documents of 150 and 15000 characters.
C22_Witness ==
    \E a, b, c, d \in Fetched :
        /\ crawl.resp[a].status_code = 200 /\ TextLen(CleanedText(crawl.resp[a])) = 149
        /\ crawl.result[a] = NoDocument
        /\ crawl.resp[b].status_code = 200 /\ TextLen(CleanedText(crawl.resp[b])) = 150
        /\ TextLen(crawl.result[b].page_content) = 150
        /\ crawl.resp[c].status_code = 200 /\ TextLen(CleanedText(crawl.resp[c])) = 15001
        /\ TextLen(crawl.result[c].page_content) = 15000
        /\ crawl.resp[d].status_code = 404 /\ crawl.result[d] = NoDocument

\* The members of a list in the order of their first occurrence.
RECURSIVE FirstOccurrences(_)
FirstOccurrences(list) ==
    IF list = <<>> THEN <<>>
    ELSE LET front == FirstOccurrences(SubSeq(list, 1, Len(list) - 1))
             last == list[Len(list)]
         IN IF \E j \in 1..Len(front) : front[j] = last THEN front ELSE Append(front, last)

\* A call of s3_append_url for tenant t that has returned.
Appended(p, t) ==
    /\ st[p].op = "append" /\ st[p].tenant = t
    /\ st[p].pc = "done" /\ st[p].result = "returned"

\* C23: with s3_append_url called one call at a time on a urls.txt that was
\* absent or free of duplicates, the URLs the file lists are those listed at the
\* start followed by the trimmed URLs appended, each once, in the order of first
\* appearance (so appending a listed URL changes nothing); once a call has
\* returned the file holds exactly these, one per line.
C23_SequentialAppend ==
    \A t \in Tenants :
        /\ StrippedLines(urls[t]) = FirstOccurrences(appended[t])
        /\ (\E p \in Procs : Appended(p, t)) => urls[t] = FirstOccurrences(appended[t])

\* Two calls have returned for a tenant whose file started with a padded line, a
\* blank line and two URLs: one appended a new URL given with whitespace around
\* it, the other a URL already listed.
C23_Witness ==
    \E t \in Tenants, p, q \in Procs :
        /\ p # q /\ Appended(p, t) /\ Appended(q, t)
        /\ st[p].url # Strip(st[p].url)
        /\ Len(appended[t]) = 4 /\ Len(urls[t]) = 3
        /\ urls[t][3] = Strip(st[p].url)

\* C24: when answer_question_modern raises, a webhook handler still sends one of
\* its canned replies to the user's chat, and the response of an HTTP chat
\* endpoint does not contain the text of the exception.
C24_FailureGetsCannedReply ==
    \A p \in Procs :
        ( /\ st[p].op = "answer" /\ st[p].channel # "" /\ st[p].responded
          /\ st[p].result = "raised" ) =>
            /\ st[p].channel \in WebhookChannels => st[p].reply \in CannedReplies
            /\ st[p].channel \in HttpChannels =>
                    \A k \in 1..Len(st[p].http.body) : st[p].http.body[k] # st[p].exc

\* C25: in a run of index_tenant_files, no scan of the delete starts before
\* ensure_vector_index has returned; the run goes past delete_tenant_vectors only
\* when that has returned, which, unless a backend error cut it short, is when
\* the scan is exhausted and every key it found has been handed to a delete
\* batch; and no put_vectors for the tenant is issued before that.
C25_StepsInOrder ==
    \A p \in Procs :
        st[p].op = "index" =>
            /\ InEnsure(p) =>
                    (st[p].how = "" /\ st[p].keys_to_delete = <<>> /\ ~st[p].deleted)
            /\ st[p].pc \in {"d_scan", "d_delete", "i_mkdtemp"} => st[p].how # ""
            /\ st[p].pc \in {"d_scan", "d_delete"} => ~st[p].deleted
            /\ st[p].pc = "i_mkdtemp" =>
                    /\ st[p].deleted
                    /\ st[p].err_at \notin DeleteCalls =>
                            /\ st[p].next_token = None
                            /\ st[p].i >= Len(st[p].keys_to_delete)
            /\ st[p].batches = <<>> /\ st[p].total = None

\* A run has come through ensure_vector_index, four scan pages and two delete
\* batches and stands at the first statement after the delete.
C25_Witness ==
    \E p \in Procs :
        /\ st[p].op = "index" /\ st[p].pc = "i_mkdtemp"
        /\ st[p].how # "" /\ st[p].deleted
        /\ Len(st[p].keys_to_delete) > DeleteBatch
        /\ st[p].i >= Len(st[p].keys_to_delete)
        /\ st[p].removed > DeleteBatch

C27_SentinelRemoved ==
    /\ \A p \in Procs :
            (st[p].op = "ensure" /\ st[p].idx_at_call) =>
                /\ st[p].pc \notin {"e_mkbucket", "e_create"}
                /\ st[p].how \in {"", "probe_ok"}
                /\ st[p].pc = "done" => st[p].result = "returned"
    /\ (vindex.exists /\ indexCreates = 0) => index \ {PingRecord} = SeedRecords
    /\ indexCreates <= 1
    /\ PingRecord \in index => \E p \in Procs : st[p].pc = "e_delping"
    /\ (\A p \in Procs : st[p].pc = "done") => \A r \in index : r.key # PingKey

\* Two callers ran their probes at once on the existing index: one has returned,
\* its delete_vectors having removed the sentinel the other wrote, and the other
\* has yet to issue its own delete_vectors.
C27_Witness ==
    /\ vindex.exists /\ indexCreates = 0
    /\ \E p, q \in Procs :
        /\ st[p].op = "ensure" /\ st[p].idx_at_call
        /\ st[p].pc = "done" /\ st[p].how = "probe_ok"
        /\ st[q].op = "ensure" /\ st[q].idx_at_call /\ st[q].pc = "e_delping"
    /\ index = SeedRecords

\* The documents the crawl owes: one for each entry of the list whose fetch gave
\* usable content, in the order of the list.
RECURSIVE Usable(_)
Usable(n) ==
    IF n = 0 THEN <<>>
    ELSE IF crawl.result[n] # NoDocument
         THEN Append(Usable(n - 1), crawl.result[n]) ELSE Usable(n - 1)

\* C28: never more than 10 fetches are in flight, and the crawl returns exactly
\* one document for each entry of the list whose fetch gave usable content, in
\* the order of the list, whichever of the other fetches failed, timed out or
\* gave nothing usable.
C28_BoundedPoolInOrder ==
    /\ Cardinality(InFlight) <= 10
    /\ crawl.phase = "returned" =>
            /\ \A k \in 1..Len(crawl.urls) : crawl.state[k] = "done"
            /\ crawl.docs = Usable(Len(crawl.urls))
            /\ \A k \in 1..Len(crawl.docs) : crawl.docs[k] # NoDocument
    /\ \A k \in 1..Len(crawl.urls) :
            crawl.state[k] = "done" =>
                crawl.result[k] = fetch_url_content(crawl.urls[k], crawl.resp[k])

\* A crawl of more than ten entries has returned: a fetch of a usable page timed
\* out, another met an error status, and the documents of the rest came back in
\* the order of the list.
C28_Witness ==
    /\ crawl.phase = "returned" /\ Len(crawl.urls) > 10
    /\ \E k \in 1..Len(crawl.urls) :
            crawl.resp[k] = Timeout /\ Web(crawl.urls[k]) # Timeout
            /\ fetch_url_content(crawl.urls[k], Web(crawl.urls[k])) # NoDocument
    /\ \E k \in 1..Len(crawl.urls) : crawl.resp[k].status_code = 404
    /\ Len(crawl.docs) >= 5
    /\ \A j, k \in 1..Len(crawl.docs) :
            j < k => \E a, b \in 1..Len(crawl.urls) :
                        a < b /\ crawl.urls[a] = crawl.docs[j].source
                              /\ crawl.urls[b] = crawl.docs[k].source

\* The distinct tenant ids the well-formed records of a batch refer to: SQS
\* bodies carrying an integer tenant_id, S3 records wrapped in an SQS body, and
\* direct S3 records, the S3 records with a key knowledge_base/<integer>/...
Referenced(Records) ==
    LET KeyTenant(record) ==
            IF /\ record.eventSource = "aws:s3"
               /\ Len(record.key) >= 3
               /\ record.key[1] = "knowledge_base"
            THEN IntOf(record.key[2]) ELSE None
        Of(record) ==
            IF record.eventSource = "aws:sqs" /\ record.body.kind = "tenant"
            THEN {IntOf(record.body.tenant_id)}
            ELSE IF record.eventSource = "aws:sqs" /\ record.body.kind = "s3"
            THEN { KeyTenant(record.body.Records[k]) : k \in 1..Len(record.body.Records) }
            ELSE {KeyTenant(record)}
    IN UNION { Of(Records[j]) : j \in 1..Len(Records) } \ {None}

\* C29: when lambda_handler returns, the tenants whose re-index it ran are
\* exactly the distinct tenant ids its well-formed records refer to, whatever
\* malformed records the batch also carries.
C29_TenantsReindexed ==
    lam.phase = "returned" => lam.reindexed = Referenced(lam.Records)

\* C30: when two calls of s3_append_url for one tenant with different URLs have
\* both returned, urls.txt lists both URLs, however their reads and writes
\* interleaved.
C30_NoLostUpdate ==
    \A t \in Tenants, p, q \in Procs :
        ( /\ p # q /\ Appended(p, t) /\ Appended(q, t)
          /\ Strip(st[p].url) # Strip(st[q].url) ) =>
            \A u \in {Strip(st[p].url), Strip(st[q].url)} :
                \E j \in 1..Len(urls[t]) : urls[t][j] = u

====
